---- MODULE Spec2Model ----
(***************************************************************************)
(* Model of ros2_ws/src/cpp_pubsub/src/marker_publisher.cpp: the           *)
(* MarkerPublisher node, its three callbacks and the four marker           *)
(* generators.                                                             *)
(*                                                                         *)
(* Numbers.  C++ doubles are modelled in fixed point:                      *)
(*   - lengths are integers in units of 1/Metre of a metre;                *)
(*   - colour components and ph are integers in hundredths;                *)
(*   - angles are integers in units of 1/Turn of a full turn (2*pi);       *)
(*   - sin is Bhaskara's rational approximation, scaled by SinScale;       *)
(*   - a Float64 "countdown" message is an integer number of               *)
(*     1/SecondParts of a second.                                          *)
(***************************************************************************)
EXTENDS Integers, Sequences, FiniteSets, TLC

\* ------------------------------------------------------------------------
\* Resolution of the fixed-point model
Metre == 10 ^ 6
SinScale == 10 ^ 3

\* ------------------------------------------------------------------------
\* Bounds of the exploration
SecondParts == 2     \* a countdown message is a multiple of 1/SecondParts s
NegSeconds == 1      \* countdown messages go down to -NegSeconds seconds
MaxSeconds == 6      \* ... and up to MaxSeconds seconds (plus StopSeconds)
MaxClock == 1        \* the wall clock reads 0..MaxClock
MaxCalls == 3        \* invocations of generate_traj_marker on one marker
MaxTrajId == 7       \* traj_id is drawn from -1..MaxTrajId (the table is 0..5)

\* ------------------------------------------------------------------------
\* Program constants (class members with initialisers)
max_points == 200
max_smoothing_time == 5
max_recording_time == 10
origin == <<5059 * (Metre \div 10000), 0, 4346 * (Metre \div 10000)>>
bar_center == <<(3 * Metre) \div 10, 0, (5 * Metre) \div 100>>
traj_height == Metre \div 10
traj_width == (3 * Metre) \div 10
traj_depth == Metre \div 10

\* angles: Turn units make one period 2*pi; M_PI is half of it
Turn == 3 * max_points
M_PI == Turn \div 2

\* a default-constructed visualization_msgs::msg::Marker
Marker0 ==
  [frame_id |-> "", stamp |-> 0, ns |-> "", action |-> "ADD", id |-> 0,
   type |-> "ARROW", scale |-> <<0, 0, 0>>,
   color |-> [r |-> 0, g |-> 0, b |-> 0, a |-> 0],
   position |-> <<0, 0, 0>>, points |-> <<>>, text |-> ""]

\* ------------------------------------------------------------------------
\* Arithmetic helpers

\* C++ (int) conversion of a double: truncation toward zero
Truncate(d) ==
  IF d >= 0 THEN d \div SecondParts ELSE -((-d) \div SecondParts)

Abs(v) == IF v < 0 THEN -v ELSE v

\* sin(a), a in Turn units, result scaled by SinScale
Sin(a) ==
  LET r == a % Turn
      H == Turn \div 2
      B(x) == (16 * x * (H - x) * SinScale) \div (5 * H * H - 4 * x * (H - x))
  IN  IF r <= H THEN B(r) ELSE -B(r - H)

\* std::to_string(int)
Digit(d) == CASE d = 0 -> "0" [] d = 1 -> "1" [] d = 2 -> "2" [] d = 3 -> "3"
              [] d = 4 -> "4" [] d = 5 -> "5" [] d = 6 -> "6" [] d = 7 -> "7"
              [] d = 8 -> "8" [] d = 9 -> "9"

RECURSIVE NatString(_)
NatString(n) ==
  IF n < 10 THEN Digit(n) ELSE NatString(n \div 10) \o Digit(n % 10)

to_string(n) == IF n < 0 THEN "-" \o NatString(-n) ELSE NatString(n)

\* ------------------------------------------------------------------------
\* State
VARIABLES
  use_depth, traj_id,          \* startup parameters read by the constructor
  pa, pb, pc, ps, ph,          \* sine curve parameters
  ref_pos,                     \* latest reference tcp position
  controller_seconds,          \* truncated value of the latest countdown message
  countdown_count,
  traj_marker_, ref_marker_, tcp_marker_,
  published,                   \* the MarkerArray last handed to marker_pub_ (<<>>: none yet)
  last_callback,               \* the callback the executor dispatched last
  clock,                       \* reading of rclcpp::Clock().now()
  calls,                       \* invocations of generate_traj_marker so far
  last_data,                   \* history: the latest countdown message (msg.data)
  last_nonzero,                \* history: truncated value of the latest countdown message
                               \*   that did not truncate to 0 (0: none yet)
  on_run,                      \* history: the messages so far are a prefix of ElapsedRun
  run                          \* history: countdown_count after each message, while on_run

params == <<use_depth, traj_id, pa, pb, pc, ps, ph>>
history == <<last_data, last_nonzero, on_run, run>>
vars == <<use_depth, traj_id, pa, pb, pc, ps, ph, ref_pos, controller_seconds,
          countdown_count, traj_marker_, ref_marker_, tcp_marker_, published,
          last_callback, clock, calls, last_data, last_nonzero, on_run, run>>

\* ------------------------------------------------------------------------
\* generate_traj_marker

\* one vertex of the line strip (the body of the for loop); abs is taken as
\* the floating-point absolute value
TrajPoint(count, org, maxp, a, b, c, s, h, height, width, depth, ud) ==
  LET t == (count * Turn) \div maxp
      x == IF ud # 0 THEN (Abs(t - M_PI) * depth) \div M_PI - (depth \div 2) ELSE 0
      y == (t * width) \div (2 * M_PI) - (width \div 2)
      z == (((h * height) \div 100)
              * (Sin(a * (t + s)) + Sin(b * (t + s)) + Sin(c * (t + s)))) \div SinScale
  IN  <<x + org[1], y + org[2], z + org[3]>>

generate_traj_marker(traj_marker, org, maxp, a, b, c, s, h, height, width, depth, ud, now) ==
  [traj_marker EXCEPT
     !.frame_id = "/panda_link0",
     !.stamp = now,
     !.ns = "marker_publisher",
     !.action = "ADD",
     !.id = 2,
     !.type = "LINE_STRIP",
     !.scale = <<(15 * Metre) \div 1000, @[2], @[3]>>,
     !.color = [@ EXCEPT !.b = 100, !.a = 20],
     !.points = @ \o [i \in 1..(maxp + 1) |->
                        TrajPoint(i - 1, org, maxp, a, b, c, s, h, height, width, depth, ud)]]

\* ------------------------------------------------------------------------
\* generate_tcp_marker
generate_tcp_marker(tcp_marker, now) ==
  [tcp_marker EXCEPT
     !.frame_id = "/panda_hand_tcp",
     !.stamp = now,
     !.ns = "marker_publisher",
     !.action = "ADD",
     !.id = 1,
     !.type = "SPHERE",
     !.scale = <<(15 * Metre) \div 1000, (15 * Metre) \div 1000, (15 * Metre) \div 1000>>,
     !.color = [@ EXCEPT !.r = 100, !.a = 100],
     !.position = <<0, 0, 0>>]

\* ------------------------------------------------------------------------
\* generate_ref_ball
\* variant: the fallback is taken only when the whole reading is (0, 0, 0)
generate_ref_ball_xyz(ref_marker, x, y, z, d, traj_marker, now) ==
  LET my_size == (15 * Metre) \div 1000 + d \div 20
  IN  [ref_marker EXCEPT
         !.frame_id = "/panda_link0",
         !.stamp = now,
         !.ns = "marker_publisher",
         !.action = "ADD",
         !.id = 0,
         !.type = "SPHERE",
         !.scale = <<my_size, my_size, my_size>>,
         !.color = [@ EXCEPT !.g = 100, !.a = 35],
         !.position = IF x = 0 /\ y = 0 /\ z = 0
                        THEN traj_marker.points[1] ELSE <<x, y, z>>]

generate_ref_ball(ref_marker, x, y, z, d, traj_marker, now) ==
  LET my_size == (15 * Metre) \div 1000 + d \div 20
  IN  [ref_marker EXCEPT
         !.frame_id = "/panda_link0",
         !.stamp = now,
         !.ns = "marker_publisher",
         !.action = "ADD",
         !.id = 0,
         !.type = "SPHERE",
         !.scale = <<my_size, my_size, my_size>>,
         !.color = [@ EXCEPT !.g = 100, !.a = 35],
         !.position = IF x = 0 THEN traj_marker.points[1] ELSE <<x, y, z>>]

\* ------------------------------------------------------------------------
\* generate_countdown
CountdownColor(c0, count) ==
  LET c1 == CASE count \in {5, 4, 3} -> [c0 EXCEPT !.r = 100]
              [] count \in {2, 1}    -> [c0 EXCEPT !.r = 100, !.g = 100]
              [] count = 0           -> [c0 EXCEPT !.g = 100]
              [] OTHER               -> c0
  IN  [c1 EXCEPT !.a = 100]

LabelFields(base, count, center, now) ==
  LET text0 == [base EXCEPT
                  !.frame_id = "/panda_link0",
                  !.stamp = now,
                  !.ns = "marker_publisher",
                  !.action = "ADD",
                  !.id = 10,
                  !.type = "TEXT_VIEW_FACING",
                  !.scale = <<@[1], @[2], (2 * Metre) \div 10>>,
                  !.color = CountdownColor(@, count),
                  !.text = to_string(count)]
      text1 == IF count = 0 THEN [text0 EXCEPT !.text = "Go!"] ELSE text0
      text2 == IF count = -10
                 THEN [text1 EXCEPT !.text = "Stop!", !.color = [@ EXCEPT !.r = 100]]
                 ELSE text1
  IN  [text2 EXCEPT
         !.position = <<center[1], center[2], center[3] + (5 * Metre) \div 100>>]

\* variant: the label is kept between calls (a static or member marker)
\* instead of being a fresh local
generate_countdown_kept(count, center, now) ==
  LabelFields(IF Len(published) = 4 THEN published[4] ELSE Marker0, count, center, now)

\* auto text = visualization_msgs::msg::Marker(); ... return text;
generate_countdown(count, center, now) == LabelFields(Marker0, count, center, now)

\* ------------------------------------------------------------------------
\* MarkerPublisher::MarkerPublisher

\* variant: the switch has a default that picks the row of traj_id 0
Coefficients_default0(id) ==
  CASE id = 1 -> [pa |-> 2, pb |-> 3, pc |-> 4, ps |-> (4 * M_PI) \div 3, ph |-> 25]
    [] id = 2 -> [pa |-> 1, pb |-> 3, pc |-> 4, ps |-> M_PI, ph |-> 25]
    [] id = 3 -> [pa |-> 2, pb |-> 2, pc |-> 5, ps |-> M_PI, ph |-> 20]
    [] id = 4 -> [pa |-> 2, pb |-> 3, pc |-> 5, ps |-> (8 * M_PI) \div 5, ph |-> 20]
    [] id = 5 -> [pa |-> 2, pb |-> 4, pc |-> 5, ps |-> M_PI, ph |-> 20]
    [] OTHER  -> [pa |-> 1, pb |-> 1, pc |-> 4, ps |-> M_PI, ph |-> 25]

\* the member initialisers of pa..ph followed by switch (traj_id)
Coefficients(id) ==
  CASE id = 0 -> [pa |-> 1, pb |-> 1, pc |-> 4, ps |-> M_PI, ph |-> 25]
    [] id = 1 -> [pa |-> 2, pb |-> 3, pc |-> 4, ps |-> (4 * M_PI) \div 3, ph |-> 25]
    [] id = 2 -> [pa |-> 1, pb |-> 3, pc |-> 4, ps |-> M_PI, ph |-> 25]
    [] id = 3 -> [pa |-> 2, pb |-> 2, pc |-> 5, ps |-> M_PI, ph |-> 20]
    [] id = 4 -> [pa |-> 2, pb |-> 3, pc |-> 5, ps |-> (8 * M_PI) \div 5, ph |-> 20]
    [] id = 5 -> [pa |-> 2, pb |-> 4, pc |-> 5, ps |-> M_PI, ph |-> 20]
    [] OTHER  -> [pa |-> 0, pb |-> 0, pc |-> 0, ps |-> 0, ph |-> 0]

\* the values the startup parameters are drawn from
TrajIds == (-1)..MaxTrajId
UseDepths == {0, 1}

\* the constructor up to (not including) the call of generate_traj_marker
Members(id, ud) ==
  /\ traj_id = id
  /\ use_depth = ud
  /\ pa = Coefficients(id).pa
  /\ pb = Coefficients(id).pb
  /\ pc = Coefficients(id).pc
  /\ ps = Coefficients(id).ps
  /\ ph = Coefficients(id).ph
  /\ ref_pos = <<0, 0, 0>>
  /\ controller_seconds = 0
  /\ countdown_count = 5
  /\ ref_marker_ = Marker0
  /\ tcp_marker_ = Marker0
  /\ published = <<>>
  /\ last_callback = "none"
  /\ clock = 0
  /\ last_data = 0
  /\ last_nonzero = 0
  /\ on_run = TRUE
  /\ run = <<>>

\* the call generate_traj_marker(traj_marker_, origin, max_points, ...) of the node
FillTrajectory(marker, now) ==
  generate_traj_marker(marker, origin, max_points, pa, pb, pc, ps, ph,
                       traj_height, traj_width, traj_depth, use_depth, now)

\* the state after construction
Constructed(id, ud) ==
  /\ Members(id, ud)
  /\ traj_marker_ = FillTrajectory(Marker0, 0)
  /\ calls = 1

\* ------------------------------------------------------------------------
\* MarkerPublisher::marker_callback (the 50 Hz wall timer)
ShowCountdown(count) == count >= 0 \/ count = -10

BallDistance(ref) ==
  IF ref[1] # 0 THEN ref[1] - origin[1] + (5 * Metre) \div 100 ELSE Metre \div 10

\* variant: the ball is pushed before the tcp marker
MarkerArray_swapped(traj, tcp, ball, count, now) ==
  <<traj, ball, tcp>>
    \o (IF ShowCountdown(count)
          THEN <<generate_countdown(count, bar_center, now)>>
          ELSE <<>>)

MarkerArray(traj, tcp, ball, count, now) ==
  <<traj, tcp, ball>>
    \o (IF ShowCountdown(count)
          THEN <<generate_countdown(count, bar_center, now)>>
          ELSE <<>>)

\* variant: the trajectory marker is generated again on every tick
marker_callback_regen(now) ==
  LET traj == FillTrajectory(traj_marker_, now)
      tcp == generate_tcp_marker(tcp_marker_, now)
      d == BallDistance(ref_pos)
      ball == generate_ref_ball(ref_marker_, ref_pos[1], ref_pos[2], ref_pos[3], d,
                                traj, now)
  IN  /\ traj_marker_' = traj
      /\ tcp_marker_' = tcp
      /\ ref_marker_' = ball
      /\ published' = MarkerArray(traj, tcp, ball, countdown_count, now)
      /\ clock' = now
      /\ last_callback' = "marker_callback"
      /\ UNCHANGED <<params, ref_pos, controller_seconds, countdown_count,
                     calls, history>>

\* the clock readings of one callback are taken at one instant, now
marker_callback(now) ==
  LET tcp == generate_tcp_marker(tcp_marker_, now)
      d == BallDistance(ref_pos)
      ball == generate_ref_ball(ref_marker_, ref_pos[1], ref_pos[2], ref_pos[3], d,
                                traj_marker_, now)
  IN  /\ tcp_marker_' = tcp
      /\ ref_marker_' = ball
      /\ published' = MarkerArray(traj_marker_, tcp, ball, countdown_count, now)
      /\ clock' = now
      /\ last_callback' = "marker_callback"
      /\ UNCHANGED <<params, ref_pos, controller_seconds, countdown_count,
                     traj_marker_, calls, history>>

\* ------------------------------------------------------------------------
\* MarkerPublisher::ref_callback ("tcp_position" subscription)
\* variant: the third component is not copied
ref_callback_partial(msg) ==
  /\ ref_pos' = <<msg[1], msg[2], ref_pos[3]>>
  /\ last_callback' = "ref_callback"
  /\ UNCHANGED <<params, controller_seconds, countdown_count, traj_marker_,
                 ref_marker_, tcp_marker_, published, clock, calls, history>>

ref_callback(msg) ==
  /\ ref_pos' = <<msg[1], msg[2], msg[3]>>
  /\ last_callback' = "ref_callback"
  /\ UNCHANGED <<params, controller_seconds, countdown_count, traj_marker_,
                 ref_marker_, tcp_marker_, published, clock, calls, history>>

\* ------------------------------------------------------------------------
\* MarkerPublisher::count_callback ("countdown" subscription)
\* variant: the assignment is not guarded by controller_seconds != 0
NewCount_unguarded(count, seconds) == max_smoothing_time - seconds

\* variant: elapsed_seconds == 0 resets the countdown to its default
NewCount_reset(count, seconds) ==
  IF seconds # 0 THEN max_smoothing_time - seconds ELSE max_smoothing_time

NewCount(count, seconds) ==
  IF seconds # 0 THEN max_smoothing_time - seconds ELSE count

count_callback(data) ==
  /\ controller_seconds' = Truncate(data)
  /\ countdown_count' = NewCount(countdown_count, Truncate(data))
  /\ last_callback' = "count_callback"
  /\ UNCHANGED <<params, ref_pos, traj_marker_, ref_marker_, tcp_marker_,
                 published, clock, calls>>

\* ------------------------------------------------------------------------
\* The environment: what the subscriptions deliver

\* reference positions: the default (0, 0, 0), x = 0 with y and z set, and a
\* live reading (0.55, 0.0, 0.45)
RefPositions ==
  { <<0, 0, 0>>,
    <<0, Metre \div 10, (2 * Metre) \div 10>>,
    <<(55 * Metre) \div 100, 0, (45 * Metre) \div 100>> }

\* the controller's elapsed time, whole seconds
StopSeconds == max_smoothing_time + max_recording_time
ElapsedSeconds == ((-NegSeconds)..MaxSeconds) \cup {StopSeconds}

\* the messages within second s: the whole second and the last part of it
DataOf(s) ==
  CASE s > 0 -> {s * SecondParts, s * SecondParts + (SecondParts - 1)}
    [] s < 0 -> {s * SecondParts, s * SecondParts - (SecondParts - 1)}
    [] OTHER -> {-(SecondParts - 1), 0, SecondParts - 1}

ElapsedData == UNION {DataOf(s) : s \in ElapsedSeconds}

\* the run of section 8 of the specification: elapsed seconds 0, 1, 2, 3, 4, 5
ElapsedRun == <<0, 1, 2, 3, 4, 5>>

\* history of the countdown messages, recorded as count_callback handles one
Record(data) ==
  LET k == Len(run) + 1
      follows == on_run /\ k <= Len(ElapsedRun) /\ data \in DataOf(ElapsedRun[k])
  IN  /\ last_data' = data
      /\ last_nonzero' = IF data \in DataOf(0) THEN last_nonzero ELSE controller_seconds'
      /\ on_run' = follows
      /\ run' = IF follows THEN Append(run, countdown_count') ELSE <<>>

\* ------------------------------------------------------------------------
\* The node under rclcpp::spin: callbacks run one at a time, in any order
SessionParams == {<<-1, 0>>, <<4, 1>>}

Init == \E p \in SessionParams : Constructed(p[1], p[2])

Timer == \E now \in clock..MaxClock : marker_callback(now)
TcpPosition == \E msg \in RefPositions : ref_callback(msg)
Countdown == \E data \in ElapsedData : count_callback(data) /\ Record(data)

Next == Timer \/ TcpPosition \/ Countdown

Spec == Init /\ [][Next]_vars

\* ------------------------------------------------------------------------
\* generate_traj_marker on its own: the constructor has resolved the
\* coefficients and the marker is still empty; each step fills the same marker
Generate ==
  /\ calls < MaxCalls
  /\ \E now \in clock..MaxClock :
       /\ traj_marker_' = FillTrajectory(traj_marker_, now)
       /\ clock' = now
  /\ calls' = calls + 1
  /\ UNCHANGED <<params, ref_pos, controller_seconds, countdown_count,
                 ref_marker_, tcp_marker_, published, last_callback, history>>

InitTraj ==
  \E id \in TrajIds, ud \in UseDepths :
    /\ Members(id, ud)
    /\ traj_marker_ = Marker0
    /\ calls = 0

NextTraj == Generate

SpecTraj == InitTraj /\ [][NextTraj]_vars

\* ========================================================================
\* Properties

KnownCounts == {5, 4, 3, 2, 1, 0, -10}

Ticked == last_callback = "marker_callback"

HasLabel(ms) == \E i \in 1..Len(ms) : ms[i].type = "TEXT_VIEW_FACING"

\* ------------------------------------------------------------------------
\* C1: on every tick, if countdown_count is not one of 5, 4, 3, 2, 1, 0, -10
\* the emitted MarkerSet holds no countdown label, for values below the set
\* and above it alike.
C1_NoLabelOutsideKnownCounts ==
  (Ticked /\ countdown_count \notin KnownCounts) => ~HasLabel(published)

\* ------------------------------------------------------------------------
\* C2: count_callback truncates the message to whole seconds; a non-zero
\* value sets countdown_count to max_smoothing_time - seconds (5 - seconds),
\* a zero value leaves countdown_count as it was; so the run of elapsed
\* seconds 0, 1, 2, 3, 4, 5 from the initial state gives 5, 4, 3, 2, 1, 0.

\* data lies within second s, counted toward zero
WithinSecond(data, s) ==
  /\ Abs(s) * SecondParts <= Abs(data)
  /\ Abs(data) < (Abs(s) + 1) * SecondParts
  /\ (s > 0 => data > 0)
  /\ (s < 0 => data < 0)

C2_CountdownUpdate ==
  [][last_callback' = "count_callback" =>
       /\ WithinSecond(last_data', controller_seconds')
       /\ controller_seconds' # 0 => countdown_count' = 5 - controller_seconds'
       /\ controller_seconds' = 0 => countdown_count' = countdown_count
       /\ on_run' => run' = SubSeq(<<5, 4, 3, 2, 1, 0>>, 1, Len(run'))]_vars

C2_Witness ==
  /\ on_run
  /\ Len(run) = Len(ElapsedRun)
  /\ last_callback = "count_callback"

\* ------------------------------------------------------------------------
\* C3: for every count of 5, 4, 3, 2, 1, 0, -10 the label follows the render
\* table: 5, 4, 3 in red, 2, 1 in yellow, each with its decimal string as
\* text; 0 is "Go!" in green; -10 is "Stop!" in red; whatever labels were
\* rendered before.
TableText(count) ==
  CASE count = 5 -> "5" [] count = 4 -> "4" [] count = 3 -> "3"
    [] count = 2 -> "2" [] count = 1 -> "1"
    [] count = 0 -> "Go!" [] count = -10 -> "Stop!"

TableRGB(count) ==
  CASE count \in {5, 4, 3, -10} -> <<100, 0, 0>>
    [] count \in {2, 1}         -> <<100, 100, 0>>
    [] count = 0                -> <<0, 100, 0>>

C3_RenderTable ==
  (Ticked /\ countdown_count \in KnownCounts) =>
    /\ Len(published) = 4
    /\ published[4].text = TableText(countdown_count)
    /\ <<published[4].color.r, published[4].color.g, published[4].color.b>>
         = TableRGB(countdown_count)

C3_Witness == Ticked /\ countdown_count = -10 /\ HasLabel(published)

\* ------------------------------------------------------------------------
\* C4: a tick emits a MarkerSet whose first three elements are the
\* trajectory marker, the tcp marker and the reference ball, in this order;
\* it has a fourth and last element, the countdown label, exactly when a
\* label is produced for countdown_count; it never has more than four.
C4_MarkerSetLayout ==
  /\ published = <<>> \/ Len(published) \in {3, 4}
  /\ Ticked =>
       /\ published[1] = traj_marker_ /\ published[1].type = "LINE_STRIP"
       /\ published[2] = tcp_marker_ /\ published[2].frame_id = "/panda_hand_tcp"
       /\ published[3] = ref_marker_ /\ published[3].type = "SPHERE"
       /\ published[3].frame_id = "/panda_link0"
       /\ \A i \in 1..3 : published[i].type # "TEXT_VIEW_FACING"
       /\ Len(published) = 4 <=> (countdown_count >= 0 \/ countdown_count = -10)
       /\ Len(published) = 4 => published[4].type = "TEXT_VIEW_FACING"

C4_Witness == Ticked /\ Len(published) = 4 /\ ref_pos[1] # 0

\* ------------------------------------------------------------------------
\* C5: on a tick, if ref.x = 0 the ball sits at the first point of the
\* trajectory, whatever ref.y and ref.z, with size 0.015 + 0.1/20; otherwise
\* it sits at ref with size 0.015 + (ref.x - origin.x + 0.05)/20; position
\* and size always take the same branch.
FallbackSize == 15 * (Metre \div 1000) + (Metre \div 10) \div 20

ComputedSize(x) ==
  15 * (Metre \div 1000) + (x - 5059 * (Metre \div 10000) + 5 * (Metre \div 100)) \div 20

C5_BallPolicy ==
  Ticked =>
    LET ball == published[3]
    IN  IF ref_pos[1] = 0
          THEN /\ ball.position = traj_marker_.points[1]
               /\ ball.scale = <<FallbackSize, FallbackSize, FallbackSize>>
          ELSE /\ ball.position = ref_pos
               /\ ball.scale = <<ComputedSize(ref_pos[1]), ComputedSize(ref_pos[1]),
                                 ComputedSize(ref_pos[1])>>

C5_Witness == Ticked /\ ref_pos[1] = 0 /\ ref_pos[2] # 0 /\ ref_pos[3] # 0

\* ------------------------------------------------------------------------
\* C6: the trajectory has max_points + 1 = 201 points, computed at startup;
\* after any interleaving of position updates, countdown messages and ticks
\* the node's trajectory marker, and the one pushed into the MarkerSet, hold
\* those 201 points.
StartupPoints ==
  [i \in 1..201 |->
     TrajPoint(i - 1, origin, max_points, pa, pb, pc, ps, ph,
               traj_height, traj_width, traj_depth, use_depth)]

C6_TrajectoryFixed ==
  /\ max_points + 1 = 201
  /\ Len(traj_marker_.points) = 201
  /\ traj_marker_.points = StartupPoints
  /\ traj_marker_.stamp = 0
  /\ published # <<>> => published[1].points = StartupPoints

C6_Witness ==
  /\ Ticked
  /\ ref_pos # <<0, 0, 0>>
  /\ last_nonzero # 0
  /\ clock > 0

\* ------------------------------------------------------------------------
\* C7: invoking generate_traj_marker again with the same coefficients,
\* bounds, origin and max_points on the marker it fills gives the point
\* sequence of the first invocation, of max_points + 1 points.
FirstPoints == FillTrajectory(Marker0, 0).points

C7_Repeatable ==
  calls >= 1 =>
    /\ Len(traj_marker_.points) = max_points + 1
    /\ traj_marker_.points = FirstPoints

\* ------------------------------------------------------------------------
\* C8: for traj_id in 0..5 the resolved (pa, pb, pc, ps, ph) are the row of
\* the table; for any other traj_id all five stay 0 and every point of the
\* generated trajectory has z = origin.z.
TableRow(id) ==
  CASE id = 0 -> <<1, 1, 4, Turn \div 2, 25>>
    [] id = 1 -> <<2, 3, 4, (2 * Turn) \div 3, 25>>
    [] id = 2 -> <<1, 3, 4, Turn \div 2, 25>>
    [] id = 3 -> <<2, 2, 5, Turn \div 2, 20>>
    [] id = 4 -> <<2, 3, 5, (4 * Turn) \div 5, 20>>
    [] id = 5 -> <<2, 4, 5, Turn \div 2, 20>>

C8_CoefficientLookup ==
  IF traj_id \in 0..5
    THEN <<pa, pb, pc, ps, ph>> = TableRow(traj_id)
    ELSE /\ <<pa, pb, pc, ps, ph>> = <<0, 0, 0, 0, 0>>
         /\ \A i \in 1..Len(traj_marker_.points) :
              traj_marker_.points[i][3] = 4346 * (Metre \div 10000)

C8_Witness ==
  /\ traj_id \notin 0..5
  /\ calls = 1
  /\ Len(traj_marker_.points) = max_points + 1

\* ------------------------------------------------------------------------
\* C9: a position update overwrites ReferencePosition with the three values
\* of the message and leaves countdown_count and the trajectory alone; a
\* countdown message leaves ReferencePosition and the trajectory alone; a
\* tick leaves ReferencePosition, countdown_count and the trajectory alone,
\* and a tick that follows a tick emits the same MarkerSet, stamps aside.
Unstamped(ms) == [i \in 1..Len(ms) |-> [ms[i] EXCEPT !.stamp = 0]]

C9_Frames ==
  [][/\ last_callback' = "ref_callback" =>
          /\ ref_pos' \in RefPositions
          /\ UNCHANGED <<countdown_count, traj_marker_>>
     /\ last_callback' = "count_callback" =>
          UNCHANGED <<ref_pos, traj_marker_>>
     /\ last_callback' = "marker_callback" =>
          /\ UNCHANGED <<ref_pos, countdown_count, traj_marker_>>
          /\ last_callback = "marker_callback" =>
               Unstamped(published') = Unstamped(published)]_vars

C9_Witness ==
  /\ Ticked
  /\ clock = MaxClock
  /\ ref_pos[3] # 0
  /\ countdown_count = 0
  /\ Len(published) = 4

\* ------------------------------------------------------------------------
\* C10: countdown_count is 5 while no countdown message with a non-zero
\* truncated value has been handled, and afterwards it is max_smoothing_time
\* minus the truncated value of the latest such message; so it is never 5
\* again, no tick emits the label "5" again, and a later message that
\* truncates to 0 does not reset it.
C10_CountdownInvariant ==
  /\ countdown_count = IF last_nonzero = 0 THEN 5 ELSE 5 - last_nonzero
  /\ last_nonzero # 0 =>
       /\ countdown_count # 5
       /\ Ticked => \A i \in 1..Len(published) : published[i].text # "5"

C10_Witness ==
  /\ last_nonzero # 0
  /\ controller_seconds = 0
  /\ Ticked
  /\ HasLabel(published)

====
